---- MODULE Spec2Model ----
(***************************************************************************)
(* A model of rust-bindgen's driver layer: the command line front end      *)
(* (src/bin/bindgen.rs: parse_args, main), the library front end           *)
(* (src/lib.rs: Builder, BindgenOptions, Bindings::generate,               *)
(* Bindings::write, parse_headers) and the emission of function types      *)
(* that tests/test_func.rs pins down.                                      *)
(*                                                                         *)
(* A Rust String is a sequence of characters; a character is a one-element *)
(* TLA+ string, and the only character of the model that takes more than   *)
(* one byte in UTF-8 is written "U+00E9".  Option<T> is a sequence of      *)
(* length at most one.                                                     *)
(***************************************************************************)
EXTENDS Integers, Sequences, FiniteSets, TLC

VARIABLES
    driver,      \* who drives the pipeline: "main", "builder" or "gen"
    pc,          \* position of the driver in its code
    clang,       \* the environment: what Clang::find(None) finds
    args,        \* main: the arguments after the binary's name
    ix,          \* parse_args: the loop index
    options,     \* the BindgenOptions value being built
    out,         \* parse_args: the output writer
    ret,         \* parse_args: the ParseResult it returned, if any
    logger,      \* Option<&Logger>: the sink handed to Bindings::generate
    calls,       \* the Builder calls made so far, in order
    gen_options, \* Option: the BindgenOptions Bindings::generate received
    clang_opts,  \* Option: the ClangParserOptions parse_headers built
    generated,   \* Option: the Result of Bindings::generate
    written,     \* Option: the Result of Bindings::write
    process,     \* how the run stands: running, returned, panic, exit(-1)
    panic_msg,   \* Option: the message of the panic that ended the run
    logged,      \* what the supplied Logger received, in order
    printed,     \* what was printed to standard output, in order
    stages,      \* the stages entered so far, in order
    failure,     \* Option: what went wrong in this run
    decl,        \* header: the C declaration under translation
    global,      \* header: Option, the Global the resolver produced
    item         \* header: Option, the declaration the generator emitted

vars == <<driver, pc, clang, args, ix, options, out, ret, logger, calls,
          gen_options, clang_opts, generated, written, process, panic_msg,
          logged, printed, stages, failure, decl, global, item>>

None == <<>>
Some(x) == <<x>>

(***************************************************************************)
(* Bounds of the model.                                                    *)
(***************************************************************************)
MaxArgs == 3
MaxCalls == 2
MaxParams == 2

(***************************************************************************)
(* The strings of the program.                                             *)
(***************************************************************************)
S_help_long == <<"-", "-", "h", "e", "l", "p">>
S_h == <<"-", "h">>
S_emit_clang_ast == <<"-", "e", "m", "i", "t", "-", "c", "l", "a", "n", "g", "-", "a", "s", "t">>
S_o == <<"-", "o">>
S_l == <<"-", "l">>
S_static_link == <<"-", "s", "t", "a", "t", "i", "c", "-", "l", "i", "n", "k">>
S_framework_link == <<"-", "f", "r", "a", "m", "e", "w", "o", "r", "k", "-", "l", "i", "n", "k">>
S_match == <<"-", "m", "a", "t", "c", "h">>
S_builtins == <<"-", "b", "u", "i", "l", "t", "i", "n", "s">>
S_allow_unknown_types == <<"-", "a", "l", "l", "o", "w", "-", "u", "n", "k", "n", "o", "w", "n", "-", "t", "y", "p", "e", "s">>
S_override_enum_type == <<"-", "o", "v", "e", "r", "r", "i", "d", "e", "-", "e", "n", "u", "m", "-", "t", "y", "p", "e">>
S_no_functions == <<"-", "n", "o", "-", "f", "u", "n", "c", "t", "i", "o", "n", "s">>
S_no_enums == <<"-", "n", "o", "-", "e", "n", "u", "m", "s">>
S_no_globals == <<"-", "n", "o", "-", "g", "l", "o", "b", "a", "l", "s">>
S_no_types == <<"-", "n", "o", "-", "t", "y", "p", "e", "s">>
S_idirafter == <<"-", "i", "d", "i", "r", "a", "f", "t", "e", "r">>
S_uchar == <<"u", "c", "h", "a", "r">>
S_schar == <<"s", "c", "h", "a", "r">>
S_ushort == <<"u", "s", "h", "o", "r", "t">>
S_sshort == <<"s", "s", "h", "o", "r", "t">>
S_uint == <<"u", "i", "n", "t">>
S_sint == <<"s", "i", "n", "t">>
S_ulong == <<"u", "l", "o", "n", "g">>
S_slong == <<"s", "l", "o", "n", "g">>
S_ulonglong == <<"u", "l", "o", "n", "g", "l", "o", "n", "g">>
S_slonglong == <<"s", "l", "o", "n", "g", "l", "o", "n", "g">>
S_empty == <<>>

\* Strings a caller may pass that the program does not name.
S_int == <<"i", "n", "t">>
S_lm == <<"-", "l", "m">>
S_m == <<"m">>
S_a_h == <<"a", ".", "h">>
S_a_eacute == <<"a", "U+00E9">>
S_inc == <<"/", "i", "n", "c">>

(***************************************************************************)
(* str: byte length and byte-indexed slicing (bindgen.rs:45-46).           *)
(***************************************************************************)
Utf8Len(c) == IF c = "U+00E9" THEN 2 ELSE 1

RECURSIVE ByteLen(_)
ByteLen(s) == IF s = <<>> THEN 0 ELSE Utf8Len(Head(s)) + ByteLen(Tail(s))

\* s.is_char_boundary(n): byte offset n starts a character or ends the string.
IsCharBoundary(s, n) == \E k \in 0..Len(s) : ByteLen(SubSeq(s, 1, k)) = n

\* &s[..n] and &s[n..], defined when n is a char boundary; they panic otherwise.
SliceTo(s, n) ==
    LET k == CHOOSE j \in 0..Len(s) : ByteLen(SubSeq(s, 1, j)) = n
    IN  SubSeq(s, 1, k)

SliceFrom(s, n) ==
    LET k == CHOOSE j \in 0..Len(s) : ByteLen(SubSeq(s, 1, j)) = n
    IN  SubSeq(s, k + 1, Len(s))

(***************************************************************************)
(* BindgenOptions (lib.rs:131-165).                                        *)
(***************************************************************************)
BindgenOptionsFields ==
    {"match_pat", "builtins", "rust_enums", "links", "emit_ast",
     "fail_on_unknown_type", "override_enum_ty", "clang_args",
     "derive_debug", "link_prefix"}

LinkType == {"Static", "Dynamic", "Framework"}

RECURSIVE SearchPathArgs(_)
SearchPathArgs(dirs) ==
    IF dirs = <<>> THEN <<>>
    ELSE <<S_idirafter, Head(dirs)>> \o SearchPathArgs(Tail(dirs))

\* BindgenOptions_default with the policy relaxed from the start.
Mut_BindgenOptions_default(c_search_paths) ==
    [match_pat            |-> <<>>,
     builtins             |-> FALSE,
     rust_enums           |-> TRUE,
     links                |-> <<>>,
     emit_ast             |-> FALSE,
     fail_on_unknown_type |-> FALSE,
     override_enum_ty     |-> S_empty,
     clang_args           |-> SearchPathArgs(c_search_paths),
     derive_debug         |-> TRUE,
     link_prefix          |-> S_empty]

BindgenOptions_default(c_search_paths) ==
    [match_pat            |-> <<>>,
     builtins             |-> FALSE,
     rust_enums           |-> TRUE,
     links                |-> <<>>,
     emit_ast             |-> FALSE,
     fail_on_unknown_type |-> TRUE,
     override_enum_ty     |-> S_empty,
     clang_args           |-> SearchPathArgs(c_search_paths),
     derive_debug         |-> TRUE,
     link_prefix          |-> S_empty]

\* An assignment o.f = v.  A field the value does not hold yet is added to it.
SetField(o, f, v) == [g \in DOMAIN o \cup {f} |-> IF g = f THEN v ELSE o[g]]

\* A value passed where a BindgenOptions is expected holds the struct's fields.
AsBindgenOptions(o) == [f \in BindgenOptionsFields |-> o[f]]

(***************************************************************************)
(* The environment.                                                        *)
(***************************************************************************)
\* What Clang::find(None) may return: nothing, or an installation with its
\* C search paths.
Installs(paths) ==
    {[found |-> FALSE, c_search_paths |-> <<>>]} \cup
    {[found |-> TRUE, c_search_paths |-> p] : p \in paths}

\* What the headers hold, as far as parser::parse is concerned.
Headers == {"ok", "warn", "fatal", "unknown_type"}

\* The arguments main may be started with.
ArgPool ==
    {S_help_long, S_h, S_emit_clang_ast, S_o, S_l, S_static_link,
     S_framework_link, S_match, S_builtins, S_allow_unknown_types,
     S_override_enum_type, S_no_functions, S_no_enums, S_no_globals,
     S_no_types, S_lm, S_uint, S_a_h, S_a_eacute}

ArgLists == UNION {[1..n -> ArgPool] : n \in 0..MaxArgs}

(***************************************************************************)
(* parse_args (bindgen.rs:33-136).                                         *)
(***************************************************************************)
CmdUsage == [tag |-> "CmdUsage", msg |-> ""]
ParseOk == [tag |-> "ParseOk", msg |-> ""]
ParseErr(e) == [tag |-> "ParseErr", msg |-> e]

Stdout == [kind |-> "stdout", path |-> <<>>]
File(path) == [kind |-> "file", path |-> path]

\* The match arms that read args[ix + 1], with the message each returns in
\* a ParseErr when there is no such argument.
MissingValue(a) ==
    CASE a = S_o -> "Missing output filename"
      [] a = S_l -> "Missing link name"
      [] a = S_static_link -> "Missing link name"
      [] a = S_framework_link -> "Missing link name"
      [] a = S_match -> "Missing match pattern"
      [] a = S_override_enum_type -> "Missing enum type"
      [] OTHER -> ""

TakesValue(a) == MissingValue(a) # ""

\* args[ix].len() > 2 && &args[ix][..2] == "-l", once the slice is known not
\* to panic.
IsShortLink(a) == ByteLen(a) > 2 /\ SliceTo(a, 2) = S_l

\* The slice &args[ix][..2] is taken exactly when the length test holds, and
\* panics when byte 2 is inside a character.
SlicePanics(a) == ByteLen(a) > 2 /\ ~IsCharBoundary(a, 2)

\* What one loop iteration does to options: a is args[ix], v is args[ix + 1]
\* (read only by the arms that take a value).
parse_args_options(o, a, v) ==
    IF IsShortLink(a)
    THEN [o EXCEPT !.links = Append(@, <<SliceFrom(a, 2), "Default">>)]
    ELSE CASE a = S_emit_clang_ast -> [o EXCEPT !.emit_ast = TRUE]
           [] a = S_o -> o
           [] a = S_l -> [o EXCEPT !.links = Append(@, <<v, "Default">>)]
           [] a = S_static_link ->
                [o EXCEPT !.links = Append(@, <<v, "Static">>)]
           [] a = S_framework_link ->
                [o EXCEPT !.links = Append(@, <<v, "Framework">>)]
           [] a = S_match -> [o EXCEPT !.match_pat = Append(@, v)]
           [] a = S_builtins -> [o EXCEPT !.builtins = TRUE]
           [] a = S_allow_unknown_types ->
                [o EXCEPT !.fail_on_unknown_type = FALSE]
           [] a = S_override_enum_type -> [o EXCEPT !.override_enum_ty = v]
           [] a = S_no_functions -> SetField(o, "functions", FALSE)
           [] a = S_no_enums -> SetField(o, "enums", FALSE)
           [] a = S_no_globals -> SetField(o, "globals", FALSE)
           [] a = S_no_types -> SetField(o, "types", FALSE)
           [] OTHER -> [o EXCEPT !.clang_args = Append(@, a)]

\* Lines 34-43: the defaults are built first, whatever the arguments are.
parse_args_begin ==
    /\ driver = "main" /\ pc = "main"
    /\ stages' = Append(stages, "Clang::find")
    /\ IF ~clang.found
       THEN /\ process' = "panic"
            /\ panic_msg' = Some("No clang found, is it installed?")
            /\ failure' = Some("no_front_end")
            /\ pc' = "done"
            /\ UNCHANGED <<options, out, ret, ix>>
       ELSE /\ options' = BindgenOptions_default(clang.c_search_paths)
            /\ out' = Stdout
            /\ ix' = 0
            /\ IF Len(args) = 0
               THEN ret' = Some(CmdUsage) /\ pc' = "main_match"
               ELSE ret' = None /\ pc' = "parse_args"
            /\ UNCHANGED <<process, panic_msg, failure>>
    /\ UNCHANGED <<driver, clang, args, logger, calls, gen_options,
                   clang_opts, generated, written, logged, printed,
                   decl, global, item>>

\* Lines 44-133: one iteration of the loop.
parse_args_loop ==
    /\ driver = "main" /\ pc = "parse_args" /\ ix < Len(args)
    /\ LET a == args[ix + 1]
           last == ix + 1 >= Len(args)
           v == IF last THEN <<>> ELSE args[ix + 2]
       IN
       IF SlicePanics(a)
       THEN /\ process' = "panic"
            /\ panic_msg' = Some("byte index 2 is not a char boundary")
            /\ failure' = Some("slice")
            /\ pc' = "done"
            /\ UNCHANGED <<options, out, ret, ix, stages>>
       ELSE IF ~IsShortLink(a) /\ a \in {S_help_long, S_h}
       THEN /\ ret' = Some(CmdUsage)
            /\ pc' = "main_match"
            /\ UNCHANGED <<options, out, ix, stages, process, panic_msg,
                           failure>>
       ELSE IF ~IsShortLink(a) /\ TakesValue(a) /\ last
       THEN /\ ret' = Some(ParseErr(MissingValue(a)))
            /\ failure' = Some("missing_value")
            /\ pc' = "main_match"
            /\ UNCHANGED <<options, out, ix, stages, process, panic_msg>>
       ELSE IF ~IsShortLink(a) /\ a = S_o
       THEN /\ stages' = Append(stages, "File::create")
            /\ \E created \in BOOLEAN :
                 IF created
                 THEN /\ out' = File(v)
                      /\ ix' = ix + 2
                      /\ UNCHANGED <<ret, pc, failure>>
                 ELSE /\ ret' = Some(ParseErr("Open {} failed"))
                      /\ failure' = Some("open_output")
                      /\ pc' = "main_match"
                      /\ UNCHANGED <<out, ix>>
            /\ UNCHANGED <<options, process, panic_msg>>
       ELSE /\ options' = parse_args_options(options, a, v)
            /\ ix' = IF ~IsShortLink(a) /\ TakesValue(a) THEN ix + 2
                     ELSE ix + 1
            /\ UNCHANGED <<out, ret, pc, stages, process, panic_msg,
                           failure>>
    /\ UNCHANGED <<driver, clang, args, logger, calls, gen_options,
                   clang_opts, generated, written, logged, printed,
                   decl, global, item>>

\* Line 135: the loop is over.
parse_args_end ==
    /\ driver = "main" /\ pc = "parse_args" /\ ix >= Len(args)
    /\ ret' = Some(ParseOk)
    /\ pc' = "main_match"
    /\ UNCHANGED <<driver, clang, args, ix, options, out, logger, calls,
                   gen_options, clang_opts, generated, written, process,
                   panic_msg, logged, printed, stages, failure, decl,
                   global, item>>

(***************************************************************************)
(* main (bindgen.rs:180-201), up to the call of Bindings::generate.        *)
(***************************************************************************)
main_match ==
    /\ driver = "main" /\ pc = "main_match"
    /\ LET r == ret[1] IN
       CASE r.tag = "ParseErr" ->
              /\ process' = "panic"
              /\ panic_msg' = Some(r.msg)
              /\ pc' = "done"
              /\ UNCHANGED <<printed, logger>>
         [] r.tag = "CmdUsage" ->
              /\ printed' = Append(printed, "Usage: {} [options] input.h")
              /\ process' = "returned"
              /\ pc' = "done"
              /\ UNCHANGED <<panic_msg, logger>>
         [] r.tag = "ParseOk" ->
              /\ logger' = Some("StdLogger")
              /\ pc' = "generate"
              /\ UNCHANGED <<process, panic_msg, printed>>
    /\ UNCHANGED <<driver, clang, args, ix, options, out, ret, calls,
                   gen_options, clang_opts, generated, written, logged,
                   stages, failure, decl, global, item>>

(***************************************************************************)
(* parse_headers (lib.rs:256-284).                                         *)
(***************************************************************************)
EnumTypeNames ==
    {S_uchar, S_schar, S_ushort, S_sshort, S_uint, S_sint, S_ulong, S_slong,
     S_ulonglong, S_slonglong}

\* str_to_ikind with the arm of sshort copied from ushort.
Mut_str_to_ikind(s) ==
    CASE s = S_uchar -> Some("IUChar")
      [] s = S_schar -> Some("ISChar")
      [] s = S_ushort -> Some("IUShort")
      [] s = S_sshort -> Some("IUShort")
      [] s = S_uint -> Some("IUInt")
      [] s = S_sint -> Some("IInt")
      [] s = S_ulong -> Some("IULong")
      [] s = S_slong -> Some("ILong")
      [] s = S_ulonglong -> Some("IULongLong")
      [] s = S_slonglong -> Some("ILongLong")
      [] OTHER -> None

str_to_ikind(s) ==
    CASE s = S_uchar -> Some("IUChar")
      [] s = S_schar -> Some("ISChar")
      [] s = S_ushort -> Some("IUShort")
      [] s = S_sshort -> Some("IShort")
      [] s = S_uint -> Some("IUInt")
      [] s = S_sint -> Some("IInt")
      [] s = S_ulong -> Some("IULong")
      [] s = S_slong -> Some("ILong")
      [] s = S_ulonglong -> Some("IULongLong")
      [] s = S_slonglong -> Some("ILongLong")
      [] OTHER -> None

builtin_names == {"__va_list_tag", "__va_list", "__builtin_va_list"}

ClangParserOptions(o) ==
    [builtin_names        |-> builtin_names,
     builtins             |-> o.builtins,
     match_pat            |-> o.match_pat,
     emit_ast             |-> o.emit_ast,
     fail_on_unknown_type |-> o.fail_on_unknown_type,
     override_enum_ty     |-> str_to_ikind(o.override_enum_ty),
     clang_args           |-> o.clang_args]

\* parser::parse: the front end fails fatally, or an unknown type is met
\* under the strict policy, and the failure is reported to the logger before
\* it is returned; diagnostics that are not fatal are reported and the parse
\* goes on.
Diag(level, msg) == [level |-> level, msg |-> msg]

parser_parse(opts, header) ==
    CASE header = "fatal" ->
           [ok |-> FALSE, cause |-> Some("parse"),
            diags |-> <<Diag("error", "fatal parse error")>>]
      [] header = "unknown_type" /\ opts.fail_on_unknown_type ->
           [ok |-> FALSE, cause |-> Some("unknown_type"),
            diags |-> <<Diag("error", "unknown type")>>]
      [] header = "warn" ->
           [ok |-> TRUE, cause |-> None,
            diags |-> <<Diag("warn", "diagnostic")>>]
      [] OTHER -> [ok |-> TRUE, cause |-> None, diags |-> <<>>]

\* What a call of the logger generate uses delivers to the supplied sink:
\* with no sink supplied the DummyLogger of lib.rs:248-254 drops it.
Deliver(sink, log, diags) == IF sink = None THEN log ELSE log \o diags

(***************************************************************************)
(* Bindings::generate (lib.rs:188-215) and Bindings::write (lib.rs:237).   *)
(***************************************************************************)
Err == "Err(())"
OkBindings == "Ok(Bindings)"
WriteOk == "Ok(())"
WriteErr == "Err(io::Error)"

\* Bindings_generate without the try!: a failed parse goes on to gen_mod.
Mut_Bindings_generate ==
    /\ pc = "generate"
    /\ stages' = Append(stages, "parse_headers")
    /\ gen_options' = Some(AsBindgenOptions(options))
    /\ clang_opts' = Some(ClangParserOptions(AsBindgenOptions(options)))
    /\ \E header \in Headers :
         LET r == parser_parse(ClangParserOptions(AsBindgenOptions(options)),
                               header)
         IN  /\ logged' = Deliver(logger, logged, r.diags)
             /\ failure' = r.cause
             /\ pc' = "gen_mod"
             /\ UNCHANGED generated
    /\ UNCHANGED <<driver, clang, args, ix, options, out, ret, logger, calls,
                   written, process, panic_msg, printed, decl, global, item>>

\* Lines 192-203: the logger and the span are fixed, the headers are parsed,
\* and try! returns the parser's failure as it is.
Bindings_generate ==
    /\ pc = "generate"
    /\ stages' = Append(stages, "parse_headers")
    /\ gen_options' = Some(AsBindgenOptions(options))
    /\ clang_opts' = Some(ClangParserOptions(AsBindgenOptions(options)))
    /\ \E header \in Headers :
         LET r == parser_parse(ClangParserOptions(AsBindgenOptions(options)),
                               header)
         IN  /\ logged' = Deliver(logger, logged, r.diags)
             /\ IF r.ok
                THEN /\ pc' = "gen_mod"
                     /\ UNCHANGED <<generated, failure>>
                ELSE /\ generated' = Some(Err)
                     /\ failure' = r.cause
                     /\ pc' = "generated"
    /\ UNCHANGED <<driver, clang, args, ix, options, out, ret, logger, calls,
                   written, process, panic_msg, printed, decl, global, item>>

\* Lines 205-214: the module is generated and wrapped.
Bindings_generate_gen_mod ==
    /\ pc = "gen_mod"
    /\ stages' = Append(stages, "gen_mod")
    /\ generated' = Some(OkBindings)
    /\ pc' = "generated"
    /\ UNCHANGED <<driver, clang, args, ix, options, out, ret, logger, calls,
                   gen_options, clang_opts, written, process, panic_msg,
                   logged, printed, failure, decl, global, item>>

\* main_write that returns after a failed write instead of exiting with -1.
Mut_main_write_returns ==
    /\ driver = "main" /\ pc = "generated"
    /\ pc' = "done"
    /\ IF generated = Some(Err)
       THEN /\ process' = "exit(-1)"
            /\ UNCHANGED <<written, logged, stages, failure>>
       ELSE /\ stages' = Append(stages, "write")
            /\ \E w \in {WriteOk, WriteErr} :
                 /\ written' = Some(w)
                 /\ process' = "returned"
                 /\ IF w = WriteOk
                    THEN UNCHANGED <<logged, failure>>
                    ELSE /\ logged' = Deliver(logger, logged,
                              <<Diag("error",
                                     "Unable to write bindings to file. {}")>>)
                         /\ failure' = Some("write")
    /\ UNCHANGED <<driver, clang, args, ix, options, out, ret, logger, calls,
                   gen_options, clang_opts, generated, panic_msg, printed,
                   decl, global, item>>

\* main_write that exits after a failed write without telling the logger.
Mut_main_write_silent ==
    /\ driver = "main" /\ pc = "generated"
    /\ pc' = "done"
    /\ IF generated = Some(Err)
       THEN /\ process' = "exit(-1)"
            /\ UNCHANGED <<written, logged, stages, failure>>
       ELSE /\ stages' = Append(stages, "write")
            /\ \E w \in {WriteOk, WriteErr} :
                 /\ written' = Some(w)
                 /\ UNCHANGED logged
                 /\ IF w = WriteOk
                    THEN /\ process' = "returned"
                         /\ UNCHANGED failure
                    ELSE /\ failure' = Some("write")
                         /\ process' = "exit(-1)"
    /\ UNCHANGED <<driver, clang, args, ix, options, out, ret, logger, calls,
                   gen_options, clang_opts, generated, panic_msg, printed,
                   decl, global, item>>

\* bindgen.rs:189-198: what main does with the result of generate.
main_write ==
    /\ driver = "main" /\ pc = "generated"
    /\ pc' = "done"
    /\ IF generated = Some(Err)
       THEN /\ process' = "exit(-1)"
            /\ UNCHANGED <<written, logged, stages, failure>>
       ELSE /\ stages' = Append(stages, "write")
            /\ \E w \in {WriteOk, WriteErr} :
                 /\ written' = Some(w)
                 /\ IF w = WriteOk
                    THEN /\ process' = "returned"
                         /\ UNCHANGED <<logged, failure>>
                    ELSE /\ logged' = Deliver(logger, logged,
                              <<Diag("error",
                                     "Unable to write bindings to file. {}")>>)
                         /\ failure' = Some("write")
                         /\ process' = "exit(-1)"
    /\ UNCHANGED <<driver, clang, args, ix, options, out, ret, logger, calls,
                   gen_options, clang_opts, generated, panic_msg, printed,
                   decl, global, item>>

(***************************************************************************)
(* Specifications.                                                         *)
(***************************************************************************)
InitCommon ==
    /\ pc = "main"
    /\ ix = 0
    /\ options = None
    /\ out = None
    /\ ret = None
    /\ logger = None
    /\ calls = <<>>
    /\ gen_options = None
    /\ clang_opts = None
    /\ generated = None
    /\ written = None
    /\ process = "running"
    /\ panic_msg = None
    /\ logged = <<>>
    /\ printed = <<>>
    /\ stages = <<>>
    /\ failure = None
    /\ global = None
    /\ item = None

InitMain ==
    /\ driver = "main"
    /\ clang \in Installs({<<S_inc>>})
    /\ args \in ArgLists
    /\ decl = None
    /\ InitCommon

NextMain ==
    \/ parse_args_begin
    \/ parse_args_loop
    \/ parse_args_end
    \/ main_match
    \/ Bindings_generate
    \/ Bindings_generate_gen_mod
    \/ main_write

SpecMain == InitMain /\ [][NextMain]_vars

(***************************************************************************)
(* Builder (lib.rs:34-126).  A Builder is its options and its logger.      *)
(***************************************************************************)
Builder_default(c_search_paths) ==
    [logger |-> None, options |-> BindgenOptions_default(c_search_paths)]

\* Builder_clang_arg that puts the argument in front.
Mut_Builder_clang_arg(b, arg) ==
    [b EXCEPT !.options.clang_args = <<arg>> \o @]

Builder_clang_arg(b, arg) ==
    [b EXCEPT !.options.clang_args = Append(@, arg)]

Builder_header(b, header) == Builder_clang_arg(b, header)

Builder_match_pat(b, arg) ==
    [b EXCEPT !.options.match_pat = Append(@, arg)]

Builder_link(b, library, link_type) ==
    [b EXCEPT !.options.links = Append(@, <<library, link_type>>)]

Builder_forbid_unknown_types(b) ==
    [b EXCEPT !.options.fail_on_unknown_type = TRUE]

Builder_builtins(b) == [b EXCEPT !.options.builtins = TRUE]

Builder_derive_debug(b, derive_debug) ==
    [b EXCEPT !.options.derive_debug = derive_debug]

Builder_rust_enums(b, value) == [b EXCEPT !.options.rust_enums = value]

Builder_log(b, l) == [b EXCEPT !.logger = Some(l)]

Builder_override_enum_ty(b, ty) ==
    [b EXCEPT !.options.override_enum_ty = ty]

Builder_emit_ast(b, value) == [b EXCEPT !.options.emit_ast = value]

Builder_link_prefix(b, value) == [b EXCEPT !.options.link_prefix = value]

\* The arguments a caller passes to the setters.
CallArgs ==
    [header           |-> {S_a_h, S_m},
     match_pat        |-> {S_a_h, S_m},
     clang_arg        |-> {S_inc},
     library          |-> {S_m},
     derive_debug     |-> BOOLEAN,
     rust_enums       |-> BOOLEAN,
     override_enum_ty |-> {S_uint, S_sint, S_int},
     emit_ast         |-> BOOLEAN,
     link_prefix      |-> {S_m}]

Call(op, arg) == [op |-> op, arg |-> arg]

\* builder(): lib.rs:40-42 and 119-126.
builder ==
    /\ driver = "builder" /\ pc = "main"
    /\ stages' = Append(stages, "Clang::find")
    /\ IF ~clang.found
       THEN /\ process' = "panic"
            /\ panic_msg' = Some("No clang found, is it installed?")
            /\ failure' = Some("no_front_end")
            /\ pc' = "done"
            /\ UNCHANGED <<options, logger>>
       ELSE /\ options' = Builder_default(clang.c_search_paths).options
            /\ logger' = Builder_default(clang.c_search_paths).logger
            /\ pc' = "builder"
            /\ UNCHANGED <<process, panic_msg, failure>>
    /\ UNCHANGED <<driver, clang, args, ix, out, ret, calls, gen_options,
                   clang_opts, generated, written, logged, printed, decl,
                   global, item>>

\* A setter was called: the Builder is what the setter made of it.
Called(op, arg, b) ==
    /\ driver = "builder" /\ pc = "builder" /\ Len(calls) < MaxCalls
    /\ options' = b.options
    /\ logger' = b.logger
    /\ calls' = Append(calls, Call(op, arg))
    /\ UNCHANGED <<driver, pc, clang, args, ix, out, ret, gen_options,
                   clang_opts, generated, written, process, panic_msg,
                   logged, printed, stages, failure, decl, global, item>>

TheBuilder == [logger |-> logger, options |-> options]

header ==
    \E h \in CallArgs.header :
        Called("header", h, Builder_header(TheBuilder, h))

match_pat ==
    \E a \in CallArgs.match_pat :
        Called("match_pat", a, Builder_match_pat(TheBuilder, a))

clang_arg ==
    \E a \in CallArgs.clang_arg :
        Called("clang_arg", a, Builder_clang_arg(TheBuilder, a))

link ==
    \E l \in CallArgs.library, t \in LinkType :
        Called("link", <<l, t>>, Builder_link(TheBuilder, l, t))

forbid_unknown_types ==
    Called("forbid_unknown_types", None,
           Builder_forbid_unknown_types(TheBuilder))

builtins == Called("builtins", None, Builder_builtins(TheBuilder))

derive_debug ==
    \E v \in CallArgs.derive_debug :
        Called("derive_debug", v, Builder_derive_debug(TheBuilder, v))

rust_enums ==
    \E v \in CallArgs.rust_enums :
        Called("rust_enums", v, Builder_rust_enums(TheBuilder, v))

log == Called("log", None, Builder_log(TheBuilder, "Logger"))

override_enum_ty ==
    \E ty \in CallArgs.override_enum_ty :
        Called("override_enum_ty", ty,
               Builder_override_enum_ty(TheBuilder, ty))

emit_ast ==
    \E v \in CallArgs.emit_ast :
        Called("emit_ast", v, Builder_emit_ast(TheBuilder, v))

link_prefix ==
    \E v \in CallArgs.link_prefix :
        Called("link_prefix", v, Builder_link_prefix(TheBuilder, v))

\* Builder::generate (lib.rs:108-110) borrows the Builder and hands its
\* options and logger to Bindings::generate.
generate ==
    /\ driver = "builder" /\ pc = "builder"
    /\ pc' = "generate"
    /\ UNCHANGED <<driver, clang, args, ix, options, out, ret, logger, calls,
                   gen_options, clang_opts, generated, written, process,
                   panic_msg, logged, printed, stages, failure, decl, global,
                   item>>

\* The caller of the library writes the Bindings it got (lib.rs:237-244).
Bindings_write ==
    /\ driver = "builder" /\ pc = "generated" /\ generated = Some(OkBindings)
    /\ stages' = Append(stages, "write")
    /\ \E w \in {WriteOk, WriteErr} :
         /\ written' = Some(w)
         /\ failure' = IF w = WriteErr THEN Some("write") ELSE failure
    /\ pc' = "done"
    /\ UNCHANGED <<driver, clang, args, ix, options, out, ret, logger, calls,
                   gen_options, clang_opts, generated, process, panic_msg,
                   logged, printed, decl, global, item>>

InitBuilder ==
    /\ driver = "builder"
    /\ clang \in Installs({<<>>, <<S_inc>>, <<S_inc, S_m>>})
    /\ args = <<>>
    /\ decl = None
    /\ InitCommon

NextBuilder ==
    \/ builder
    \/ header
    \/ match_pat
    \/ clang_arg
    \/ link
    \/ forbid_unknown_types
    \/ builtins
    \/ derive_debug
    \/ rust_enums
    \/ log
    \/ override_enum_ty
    \/ emit_ast
    \/ link_prefix
    \/ generate
    \/ Bindings_generate
    \/ Bindings_generate_gen_mod
    \/ Bindings_write

SpecBuilder == InitBuilder /\ [][NextBuilder]_vars

Init == InitMain \/ InitBuilder

Next == NextMain \/ NextBuilder

Spec == Init /\ [][Next]_vars

(***************************************************************************)
(* Function types, from a C declaration to the emitted declaration          *)
(* (spec 3, 4.2, 4.3; the bindings tests/test_func.rs expects).            *)
(***************************************************************************)
\* C types, as the front end reports them for a cursor.
CInt == [k |-> "int"]
CVoid == [k |-> "void"]
CPtr(t) == [k |-> "ptr", to |-> t]
CFunc(params, r) == [k |-> "func", params |-> params, ret |-> r]
CTypedef(n) == [k |-> "typedef", name |-> n]
Param(n, t) == [name |-> n, ty |-> t]

\* The typedefs in scope: ty names a function type (typedef int ty();).
TypedefTable == [ty |-> CFunc(<<>>, CInt)]

\* The C type a type stands for, typedef names resolved.
Canonical(t) == IF t.k = "typedef" THEN TypedefTable[t.name] ELSE t

\* The resolver's type references (spec 3).
RECURSIVE conv_ty(_)
RECURSIVE mk_fn_sig(_)
conv_ty(t) ==
    CASE t.k = "int" -> [k |-> "TInt"]
      [] t.k = "void" -> [k |-> "TVoid"]
      [] t.k = "typedef" -> [k |-> "TNamed", name |-> t.name]
      [] t.k = "func" -> [k |-> "TFuncProto", sig |-> mk_fn_sig(t)]
      [] t.k = "ptr" ->
           IF t.to.k = "func"
           THEN [k |-> "TFuncPtr", sig |-> mk_fn_sig(t.to)]
           ELSE [k |-> "TPtr", to |-> conv_ty(t.to)]

mk_fn_sig(f) ==
    [args |-> [i \in 1..Len(f.params) |->
                 [name |-> f.params[i].name, ty |-> conv_ty(f.params[i].ty)]],
     ret  |-> conv_ty(f.ret)]

\* The resolver: a declaration cursor becomes a Global.
conv_decl(d) ==
    CASE d.kind = "function" ->
           [kind |-> "GFunc", name |-> d.name, sig |-> mk_fn_sig(d.ty)]
      [] d.kind = "typedef" ->
           [kind |-> "GType", name |-> d.name, ty |-> conv_ty(d.ty)]
      [] d.kind = "variable" ->
           [kind |-> "GVar", name |-> d.name, ty |-> conv_ty(d.ty)]
      [] d.kind = "field" ->
           [kind |-> "GComp", name |-> "Foo",
            fields |-> <<[name |-> d.name, ty |-> conv_ty(d.ty)]>>]

\* The generator's types.
RsPath(n) == [k |-> "Path", name |-> n]
RsUnit == [k |-> "Unit"]

RECURSIVE cty_to_rs(_)
RECURSIVE mk_fnty(_)
\* cty_to_rs that emits a function pointer as the bare function type.
Mut_cty_to_rs(t) ==
    CASE t.k = "TInt" -> RsPath("::std::os::raw::c_int")
      [] t.k = "TVoid" -> RsPath("::std::os::raw::c_void")
      [] t.k = "TNamed" -> RsPath(t.name)
      [] t.k = "TPtr" -> [k |-> "Ptr", to |-> cty_to_rs(t.to)]
      [] t.k = "TFuncPtr" -> mk_fnty(t.sig)
      [] t.k = "TFuncProto" -> mk_fnty(t.sig)

cty_to_rs(t) ==
    CASE t.k = "TInt" -> RsPath("::std::os::raw::c_int")
      [] t.k = "TVoid" -> RsPath("::std::os::raw::c_void")
      [] t.k = "TNamed" -> RsPath(t.name)
      [] t.k = "TPtr" -> [k |-> "Ptr", to |-> cty_to_rs(t.to)]
      [] t.k = "TFuncPtr" -> [k |-> "Option", of |-> mk_fnty(t.sig)]
      [] t.k = "TFuncProto" -> mk_fnty(t.sig)

\* extern "C" fn(args) -> ret; a void return is left out.
mk_fnty(sig) ==
    [k    |-> "BareFn",
     args |-> [i \in 1..Len(sig.args) |->
                 [name |-> sig.args[i].name, ty |-> cty_to_rs(sig.args[i].ty)]],
     ret  |-> IF sig.ret.k = "TVoid" THEN RsUnit ELSE cty_to_rs(sig.ret)]

\* The generator: a Global becomes a declaration.
gen_global(g) ==
    CASE g.kind = "GFunc" ->
           [kind |-> "ForeignFn", name |-> g.name,
            args |-> mk_fnty(g.sig).args, ret |-> mk_fnty(g.sig).ret]
      [] g.kind = "GType" ->
           [kind |-> "TypeAlias", name |-> g.name, ty |-> cty_to_rs(g.ty)]
      [] g.kind = "GVar" ->
           [kind |-> "ForeignStatic", name |-> g.name,
            ty |-> cty_to_rs(g.ty)]
      [] g.kind = "GComp" ->
           [kind |-> "Struct", name |-> g.name,
            fields |-> [i \in 1..Len(g.fields) |->
                          [name |-> g.fields[i].name,
                           ty |-> cty_to_rs(g.fields[i].ty)]]]

\* The declarations a header may hold.
ParamNames == {"x", "y", "bar"}

InnerSigs ==
    {CFunc(<<>>, CVoid), CFunc(<<Param("x", CInt)>>, CInt),
     CFunc(<<Param("x", CInt), Param("y", CInt)>>, CInt)}

ValueTypes ==
    {CInt, CPtr(CInt), CPtr(CTypedef("ty"))} \cup
    {CPtr(f) : f \in InnerSigs} \cup {CPtr(CPtr(f)) : f \in InnerSigs}

ParamLists ==
    UNION {{ps \in [1..n -> [name : ParamNames, ty : ValueTypes]] :
              \A i, j \in 1..n : i # j => ps[i].name # ps[j].name} :
           n \in 0..MaxParams}

Sigs == {CFunc(ps, r) : ps \in ParamLists, r \in {CVoid, CInt}}

Decls ==
    {[kind |-> "function", name |-> "foo", ty |-> f] : f \in Sigs} \cup
    {[kind |-> "typedef", name |-> "foo", ty |-> f] : f \in Sigs} \cup
    {[kind |-> "variable", name |-> "foo", ty |-> t] : t \in ValueTypes} \cup
    {[kind |-> "field", name |-> "bar", ty |-> t] : t \in ValueTypes}

parse ==
    /\ driver = "gen" /\ pc = "main"
    /\ global' = Some(conv_decl(decl[1]))
    /\ pc' = "resolved"
    /\ UNCHANGED <<driver, clang, args, ix, options, out, ret, logger, calls,
                   gen_options, clang_opts, generated, written, process,
                   panic_msg, logged, printed, stages, failure, decl, item>>

gen_mod ==
    /\ driver = "gen" /\ pc = "resolved"
    /\ item' = Some(gen_global(global[1]))
    /\ pc' = "emitted"
    /\ UNCHANGED <<driver, clang, args, ix, options, out, ret, logger, calls,
                   gen_options, clang_opts, generated, written, process,
                   panic_msg, logged, printed, stages, failure, decl, global>>

InitGen ==
    /\ driver = "gen"
    /\ clang = [found |-> TRUE, c_search_paths |-> <<>>]
    /\ args = <<>>
    /\ decl \in {Some(d) : d \in Decls}
    /\ InitCommon

NextGen == parse \/ gen_mod

SpecGen == InitGen /\ [][NextGen]_vars

(***************************************************************************)
(* What the claims speak of.                                               *)
(***************************************************************************)
\* The options that take the next argument as their value.
ValueOptions ==
    {S_o, S_l, S_static_link, S_framework_link, S_match,
     S_override_enum_type}

\* The positions of an argument list that are read as options: the first,
\* and every position after an option and its value.
RECURSIVE OptionPositionsFrom(_, _)
OptionPositionsFrom(as, i) ==
    IF i > Len(as) THEN {}
    ELSE {i} \cup
         OptionPositionsFrom(as, IF as[i] \in ValueOptions THEN i + 2
                                 ELSE i + 1)

\* Flag f was read as an option by the iterations parse_args has made.
FlagRead(f) ==
    \E i \in OptionPositionsFrom(args, 1) : i <= ix /\ args[i] = f

\* The arguments of the calls of the setters in ops, in call order.
RECURSIVE ArgsOfCalls(_, _)
ArgsOfCalls(cs, ops) ==
    IF cs = <<>> THEN <<>>
    ELSE (IF Head(cs).op \in ops THEN <<Head(cs).arg>> ELSE <<>>)
         \o ArgsOfCalls(Tail(cs), ops)

WasCalled(op) == \E i \in 1..Len(calls) : calls[i].op = op

\* The argument of the last call of setter op, or dflt when it was not called.
LastCall(op, dflt) ==
    LET as == ArgsOfCalls(calls, {op})
    IN  IF as = <<>> THEN dflt ELSE as[Len(as)]

\* -idirafter <dir> for each search path of the installation found.
DefaultClangArgs ==
    [i \in 1..(2 * Len(clang.c_search_paths)) |->
        IF i % 2 = 1 THEN S_idirafter ELSE clang.c_search_paths[i \div 2]]

Failed == process \in {"panic", "exit(-1)"}

(***************************************************************************)
(* C1                                                                      *)
(***************************************************************************)
FourFailures == {"no_front_end", "parse", "unknown_type", "write"}

\* What the caller of the three operations sees of a run: the panic that
\* unwound it, the Result of generate and the Result of write.
Observed == <<panic_msg, generated, written>>

ObservedOn(cause) ==
    CASE cause = "no_front_end" ->
           <<Some("No clang found, is it installed?"), None, None>>
      [] cause = "parse" -> <<None, Some(Err), None>>
      [] cause = "unknown_type" -> <<None, Some(Err), None>>
      [] cause = "write" -> <<None, Some(OkBindings), Some(WriteErr)>>

ExitOn(cause) == IF cause = "no_front_end" THEN "panic" ELSE "exit(-1)"

\* C1 as amended: a run driven by main that ends in one of the four failures
\* shows the caller a panic when no front end is found, Err(()) from
\* generate for a parse failure and for an unknown-type failure alike, and an
\* io::Error from write for a write failure; the result tells these three
\* classes apart and nothing more, and main ends the last two with the same
\* exit status.
C1_FailureClasses ==
    (driver = "main" /\ pc = "done" /\ failure # None
        /\ failure[1] \in FourFailures)
    => /\ Observed = ObservedOn(failure[1])
       /\ process = ExitOn(failure[1])
       /\ {c \in FourFailures : ObservedOn(c) = Observed}
            = IF failure[1] \in {"parse", "unknown_type"}
              THEN {"parse", "unknown_type"}
              ELSE {failure[1]}

C1_Witness ==
    /\ driver = "main" /\ pc = "done"
    /\ failure = Some("unknown_type")
    /\ generated = Some(Err)
    /\ process = "exit(-1)"

\* C1 as stated: no two of the four failures show the caller the same
\* result.
C1_FourDistinctOutcomes ==
    (driver = "main" /\ pc = "done" /\ failure # None
        /\ failure[1] \in FourFailures)
    => \A c \in FourFailures \ {failure[1]} : ObservedOn(c) # Observed

(***************************************************************************)
(* C2                                                                      *)
(***************************************************************************)
StageRank(st) ==
    CASE st = "Clang::find" -> 1
      [] st = "File::create" -> 2
      [] st = "parse_headers" -> 3
      [] st = "gen_mod" -> 4
      [] st = "write" -> 5

Entered(st) == \E i \in 1..Len(stages) : stages[i] = st

C3_BuilderState ==
    (driver = "builder" /\ options # None) =>
    /\ DOMAIN options = BindgenOptionsFields
    /\ options.clang_args
         = DefaultClangArgs \o ArgsOfCalls(calls, {"header", "clang_arg"})
    /\ options.links = ArgsOfCalls(calls, {"link"})
    /\ options.match_pat = ArgsOfCalls(calls, {"match_pat"})
    /\ logger = IF WasCalled("log") THEN Some("Logger") ELSE None
    /\ options.builtins = WasCalled("builtins")
    /\ options.fail_on_unknown_type = TRUE
    /\ options.derive_debug = LastCall("derive_debug", TRUE)
    /\ options.rust_enums = LastCall("rust_enums", TRUE)
    /\ options.emit_ast = LastCall("emit_ast", FALSE)
    /\ options.override_enum_ty = LastCall("override_enum_ty", S_empty)
    /\ options.link_prefix = LastCall("link_prefix", S_empty)

C3_Witness ==
    /\ driver = "builder" /\ generated # None
    /\ clang.c_search_paths # <<>>
    /\ Len(calls) >= 2
    /\ calls[1] = Call("header", S_a_h)
    /\ calls[2] = Call("header", S_m)
    /\ options.clang_args = DefaultClangArgs \o <<S_a_h, S_m>>

(***************************************************************************)
(* C4                                                                      *)
(***************************************************************************)
\* The caller relaxed the policy: main read -allow-unknown-types as an
\* option.  The Builder has no call that relaxes it.
PolicyRelaxed == driver = "main" /\ FlagRead(S_allow_unknown_types)

\* C4: the options are built with the strict policy, and at every point
\* after that, under main or under a Builder, the policy is relaxed exactly
\* when -allow-unknown-types was read as an option; the parser is handed
\* the same policy.
C4_UnknownTypePolicy ==
    /\ options # None => options.fail_on_unknown_type = ~PolicyRelaxed
    /\ clang_opts # None
         => clang_opts[1].fail_on_unknown_type = ~PolicyRelaxed

C4_Witness ==
    /\ driver = "main" /\ pc = "done"
    /\ Len(args) = 3
    /\ args[1] = S_match /\ args[2] = S_allow_unknown_types
    /\ args[3] = S_allow_unknown_types
    /\ clang_opts # None
    /\ ~clang_opts[1].fail_on_unknown_type
    /\ generated = Some(OkBindings)

(***************************************************************************)
(* C5                                                                      *)
(***************************************************************************)
\* The ten names and the integer kind each stands for.
IKindOf ==
    {<<S_uchar, "IUChar">>, <<S_schar, "ISChar">>, <<S_ushort, "IUShort">>,
     <<S_sshort, "IShort">>, <<S_uint, "IUInt">>, <<S_sint, "IInt">>,
     <<S_ulong, "IULong">>, <<S_slong, "ILong">>,
     <<S_ulonglong, "IULongLong">>, <<S_slonglong, "ILongLong">>}

\* Strings that are none of the ten names.
OtherStrings == (ArgPool \cup {S_empty, S_int, S_m, S_inc}) \ EnumTypeNames

\* The string the last override_enum_ty call, or the last
\* -override-enum-type option read with its value, configured.
LastOverride ==
    IF driver = "main"
    THEN LET P == {i \in OptionPositionsFrom(args, 1) :
                      i + 1 <= ix /\ args[i] = S_override_enum_type}
         IN  IF P = {} THEN S_empty
             ELSE args[(CHOOSE i \in P : \A j \in P : j <= i) + 1]
    ELSE LastCall("override_enum_ty", S_empty)

\* C5: each of the ten names yields its own kind, the ten kinds differ
\* pairwise, every other string yields no override, and the override the
\* parser is handed is the one of the string configured last.
C5_EnumOverride ==
    /\ \A p \in IKindOf : str_to_ikind(p[1]) = Some(p[2])
    /\ \A p, q \in IKindOf : p[1] # q[1] => p[2] # q[2]
    /\ {p[1] : p \in IKindOf} = EnumTypeNames
    /\ Cardinality({str_to_ikind(n) : n \in EnumTypeNames}) = 10
    /\ \A x \in OtherStrings : str_to_ikind(x) = None
    /\ options # None => options.override_enum_ty = LastOverride
    /\ clang_opts # None
         => /\ LastOverride \in EnumTypeNames
                 => \E p \in IKindOf :
                      /\ p[1] = LastOverride
                      /\ clang_opts[1].override_enum_ty = Some(p[2])
            /\ LastOverride \notin EnumTypeNames
                 => clang_opts[1].override_enum_ty = None

C5_Witness ==
    /\ driver = "main"
    /\ args = <<S_override_enum_type, S_uint, S_a_h>>
    /\ clang_opts # None
    /\ clang_opts[1].override_enum_ty = Some("IUInt")

(***************************************************************************)
(* C6                                                                      *)
(***************************************************************************)
Toggles ==
    {<<S_no_functions, "functions">>, <<S_no_enums, "enums">>,
     <<S_no_globals, "globals">>, <<S_no_types, "types">>}

\* C6 as stated: the configuration Bindings::generate consumes carries the
\* four emission toggles, each off exactly when main read its flag.
C6_TogglesReachGenerate ==
    (driver = "main" /\ gen_options # None) =>
    \A t \in Toggles :
        /\ t[2] \in DOMAIN gen_options[1]
        /\ gen_options[1][t[2]] = ~FlagRead(t[1])

(***************************************************************************)
(* C7                                                                      *)
(***************************************************************************)
\* C7 as stated: every link target of the configuration has one of the
\* three link kinds.
C7_LinkKinds ==
    options # None =>
    \A i \in 1..Len(options.links) : options.links[i][2] \in LinkType

(***************************************************************************)
(* C9                                                                      *)
(***************************************************************************)
ConfigurationFailures ==
    {"no_front_end", "missing_value", "open_output", "slice"}

FromMain(d) == d.msg = "Unable to write bindings to file. {}"

\* C9 as amended: a run driven by main that fails has a cause, and reports
\* it in one of two ways.  A failure before generate (no front end, an
\* option without its value, an output that cannot be opened, an argument
\* sliced inside a character) ends in a panic that carries the message, and
\* the Logger receives nothing.  A write failure is reported by main to the
\* Logger as an error before the exit.  A failure of generate gets no
\* diagnostic from main, which exits at once: the Logger holds what
\* parser::parse delivered to it and nothing else.
C9_FailureReports ==
    (driver = "main" /\ pc = "done" /\ Failed) =>
    /\ failure # None
    /\ failure[1] \in ConfigurationFailures
         => /\ process = "panic"
            /\ panic_msg # None
            /\ logged = <<>>
    /\ failure[1] = "write"
         => /\ process = "exit(-1)"
            /\ panic_msg = None
            /\ logged # <<>>
            /\ FromMain(logged[Len(logged)])
            /\ logged[Len(logged)].level = "error"
    /\ failure[1] \in {"parse", "unknown_type"}
         => /\ process = "exit(-1)"
            /\ panic_msg = None
            /\ \A i \in 1..Len(logged) : ~FromMain(logged[i])

C9_Witness ==
    /\ driver = "main" /\ pc = "done"
    /\ failure = Some("write")
    /\ process = "exit(-1)"
    /\ \E i \in 1..Len(logged) : FromMain(logged[i])

\* C9 as stated: a run that fails has delivered a diagnostic to the Logger,
\* and no diagnostic went any other way.
C9_EveryFailureLogged ==
    (driver = "main" /\ pc = "done" /\ Failed) =>
    /\ logged # <<>>
    /\ panic_msg = None

(***************************************************************************)
(* C10                                                                     *)
(***************************************************************************)
ListedOptions ==
    ValueOptions \cup
    {S_help_long, S_h, S_emit_clang_ast, S_builtins, S_allow_unknown_types,
     S_no_functions, S_no_enums, S_no_globals, S_no_types}

\* -l<name>
IsJoinedLink(a) == Len(a) > 2 /\ a[1] = "-" /\ a[2] = "l"

\* What parse_args returns when every output it is told to open opens.
RECURSIVE ResultFrom(_, _)
ResultFrom(as, i) ==
    IF i > Len(as) THEN "ParseOk"
    ELSE IF as[i] \in {S_help_long, S_h} THEN "CmdUsage"
    ELSE IF as[i] \in ValueOptions
         THEN IF i = Len(as) THEN "ParseErr" ELSE ResultFrom(as, i + 2)
    ELSE ResultFrom(as, i + 1)

\* The arguments that are neither a listed option nor an option's value, in
\* their order.
RECURSIVE PassedThrough(_, _)
PassedThrough(as, i) ==
    IF i > Len(as) THEN <<>>
    ELSE IF as[i] \in ValueOptions THEN PassedThrough(as, i + 2)
    ELSE IF as[i] \in ListedOptions \/ IsJoinedLink(as[i])
         THEN PassedThrough(as, i + 1)
    ELSE <<as[i]>> \o PassedThrough(as, i + 1)

ParseArgsOver == driver = "main" /\ clang.found /\ pc \notin {"main", "parse_args"}

\* C10 as stated: with a front end found, parse_args returns on every
\* argument list: CmdUsage for the empty list and when -h or --help is read
\* as an option, ParseErr when an option is left without its value or its
\* output cannot be opened, and else ParseOk with the arguments that are no
\* option and no value appended to clang_args in their order.
C10_ParseArgsReturns ==
    ParseArgsOver =>
    /\ ret # None
    /\ ret[1].tag =
         IF Len(args) = 0 THEN "CmdUsage"
         ELSE IF failure = Some("open_output") THEN "ParseErr"
         ELSE ResultFrom(args, 1)
    /\ ret[1].tag = "ParseOk"
         => options.clang_args = DefaultClangArgs \o PassedThrough(args, 1)

(***************************************************************************)
(* C8                                                                      *)
(***************************************************************************)
\* The typed places of the declaration under translation: the C type of a
\* global, a field or a parameter, with the type emitted for it.
Slots ==
    LET d == decl[1]
        it == item[1]
    IN  CASE d.kind = "variable" -> {<<d.ty, it.ty>>}
          [] d.kind = "field" -> {<<d.ty, it.fields[1].ty>>}
          [] d.kind = "function" ->
               {<<d.ty.params[i].ty, it.args[i].ty>> :
                  i \in 1..Len(d.ty.params)}
          [] d.kind = "typedef" ->
               {<<d.ty.params[i].ty, it.ty.args[i].ty>> :
                  i \in 1..Len(d.ty.params)}

\* A pointer to a function, in C: what it points to is a function type,
\* written out or named by a typedef.
IsPtrToFunction(t) == t.k = "ptr" /\ Canonical(t.to).k = "func"

IsOptionalFn(r) == r.k = "Option" /\ r.of.k = "BareFn"

RetPreserved(cr, rr) ==
    CASE cr.k = "void" -> rr = RsUnit
      [] cr.k = "int" -> rr = RsPath("::std::os::raw::c_int")

\* The emitted parameters are the C parameters: as many, in the same
\* order, under the same names.
ParamsPreserved(cps, rargs) ==
    /\ Len(rargs) = Len(cps)
    /\ \A i \in 1..Len(cps) : rargs[i].name = cps[i].name

====
